---- MODULE Spec2Model ----
(***************************************************************************)
(* Model of tools/newsweek_cache.py: one batch pipeline                    *)
(*   load_store -> prune_store -> fetch_feed_xml -> parse_rss_items ->     *)
(*   extract_item_data (per item) -> upsert_items -> save_store ->         *)
(*   build_rss                                                             *)
(* over two files (the store and the rendered feed), a wall clock and a    *)
(* remote feed.  Text is a sequence of one-character strings; an optional  *)
(* value (Python's None) is the empty tuple and a present value x is <<x>>.*)
(* Time is counted in days.                                                *)
(***************************************************************************)
EXTENDS Integers, Sequences, FiniteSets, TLC

RETENTION_DAYS == 7

\* ---- bounds of the model -------------------------------------------------
\* Spec: a long clock over short documents; WideSpec: a short clock over
\* longer documents of every kind
MaxTime == 8
MaxItems == 1
MaxWideTime == 1
MaxWideItems == 2
\* a run lasts at most this many days
MaxRunDays == 1

\* ---- optional values -----------------------------------------------------
None == <<>>
Some(x) == <<x>>
IsNone(o) == Len(o) = 0
Get(o) == o[1]

\* ---- text ----------------------------------------------------------------
Last(s) == s[Len(s)]

LowerChar(c) ==
  CASE c = "U" -> "u"
    [] c = "R" -> "r"
    [] c = "N" -> "n"
    [] c = "I" -> "i"
    [] c = "D" -> "d"
    [] c = "P" -> "p"
    [] c = "G" -> "g"
    [] c = "W" -> "w"
    [] c = "E" -> "e"
    [] c = "B" -> "b"
    [] c = "O" -> "o"
    [] c = "M" -> "m"
    [] c = "A" -> "a"
    [] OTHER -> c

\* str.lower()
Lower(s) == [i \in 1..Len(s) |-> LowerChar(s[i])]

\* str.startswith / str.endswith
StartsWith(s, p) == Len(s) >= Len(p) /\ SubSeq(s, 1, Len(p)) = p
EndsWith(s, p) == Len(s) >= Len(p) /\ SubSeq(s, Len(s) - Len(p) + 1, Len(s)) = p

\* sep in s
Contains(s, c) == \E i \in 1..Len(s) : s[i] = c

\* str.split(sep, maxsplit): the parts, cut at the first maxsplit separators
\* (maxsplit = -1: at every separator)
RECURSIVE Split(_, _, _)
Split(s, c, maxsplit) ==
  IF maxsplit = 0 \/ ~Contains(s, c)
  THEN <<s>>
  ELSE LET i == CHOOSE k \in 1..Len(s) : s[k] = c /\ \A j \in 1..(k - 1) : s[j] # c
       IN  <<SubSeq(s, 1, i - 1)>> \o Split(SubSeq(s, i + 1, Len(s)), c, maxsplit - 1)

IsSpace(c) == c = " "

\* str.strip()
RECURSIVE LStrip(_)
LStrip(s) == IF Len(s) > 0 /\ IsSpace(s[1]) THEN LStrip(Tail(s)) ELSE s
RECURSIVE RStrip(_)
RStrip(s) == IF Len(s) > 0 /\ IsSpace(s[Len(s)]) THEN RStrip(SubSeq(s, 1, Len(s) - 1)) ELSE s
Strip(s) == RStrip(LStrip(s))

URN_PREFIX == <<"u", "r", "n", ":", "u", "u", "i", "d", ":">>
EXT_WEBP == <<".", "w", "e", "b", "p">>
EXT_PNG == <<".", "p", "n", "g">>

\* ---- time ------------------------------------------------------------------
\* datetime.isoformat() / datetime.fromisoformat(): the ISO text of an instant
IsoFormat(t) == [iso |-> t]
FromIsoFormat(s) == s.iso

\* ---- guid_clean ------------------------------------------------------------
\* faulty variant: the urn:uuid: branch splits at every colon, like the other one
guid_clean_SplitAll(raw) ==
  IF raw = <<>> THEN <<>>
  ELSE IF Contains(raw, ":") THEN Last(Split(raw, ":", -1))
  ELSE raw

guid_clean(raw) ==
  IF raw = <<>> THEN <<>>
  ELSE IF StartsWith(Lower(raw), URN_PREFIX) THEN Last(Split(raw, ":", 2))
  ELSE IF Contains(raw, ":") THEN Last(Split(raw, ":", -1))
  ELSE raw

\* ---- parse_pubdate ---------------------------------------------------------
\* A date text is <<day digit>> (no zone) or <<day digit, zone>>; every other
\* text makes email.utils.parsedate_to_datetime raise.
DayOf(c) ==
  CASE c = "1" -> 1
    [] c = "2" -> 2
    [] c = "3" -> 3
    [] c = "4" -> 4
    [] OTHER -> 0
ZoneOf(c) ==
  CASE c = "Z" -> 0
    [] c = "+" -> 1
    [] OTHER -> 0
IsDay(c) == c \in {"1", "2", "3", "4"}
IsZone(c) == c \in {"Z", "+"}
DateParses(pd) ==
  \/ Len(pd) = 1 /\ IsDay(pd[1])
  \/ Len(pd) = 2 /\ IsDay(pd[1]) /\ IsZone(pd[2])

\* None, or the UTC instant: a text without zone is taken as UTC, a text with
\* a zone is converted (local time minus the zone's offset).
parse_pubdate(pd) ==
  IF ~DateParses(pd) THEN None
  ELSE IF Len(pd) = 1 THEN Some(DayOf(pd[1]))
  ELSE Some(DayOf(pd[1]) - ZoneOf(pd[2]))

\* ---- MetaGrabber / fetch_og_image -------------------------------------------
\* A page is None (the request or the decoding failed) or Some(sequence of the
\* page's meta tags); a meta tag is [prop, content] with content optional.
OG_IMAGE == <<"o", "g", ":", "i", "m", "a", "g", "e">>
OG_IMAGE_WIDTH == <<"o", "g", ":", "i", "m", "a", "g", "e", ":", "w", "i", "d", "t", "h">>
OG_IMAGE_HEIGHT == <<"o", "g", ":", "i", "m", "a", "g", "e", ":", "h", "e", "i", "g", "h", "t">>
OgProps == {OG_IMAGE, OG_IMAGE_WIDTH, OG_IMAGE_HEIGHT}

\* HTMLParser.feed over the tags: the last tag of each captured property wins
RECURSIVE MetaGrabber(_)
MetaGrabber(tags) ==
  IF tags = <<>> THEN [p \in {} |-> None]
  ELSE LET rest == MetaGrabber(SubSeq(tags, 1, Len(tags) - 1))
           t == tags[Len(tags)]
           prop == Lower(Strip(t.prop))
       IN  IF prop \in OgProps
           THEN [p \in DOMAIN rest \cup {prop} |-> IF p = prop THEN t.content ELSE rest[p]]
           ELSE rest

\* faulty variant: the extension is looked for at the end of the whole URL,
\* query string included
GuessType_WholeUrl(og) ==
  IF EndsWith(Lower(og), EXT_WEBP) THEN "image/webp"
  ELSE IF EndsWith(Lower(og), EXT_PNG) THEN "image/png"
  ELSE "image/jpeg"

GuessType(og) ==
  LET lower == Split(Lower(og), "?", 1)[1]
  IN  IF EndsWith(lower, EXT_WEBP) THEN "image/webp"
      ELSE IF EndsWith(lower, EXT_PNG) THEN "image/png"
      ELSE "image/jpeg"

fetch_og_image(url, page) ==
  IF url = <<>> THEN None
  ELSE IF IsNone(page) THEN None
  ELSE LET meta == MetaGrabber(Get(page))
           content == IF OG_IMAGE \in DOMAIN meta THEN meta[OG_IMAGE] ELSE None
           og == Strip(IF IsNone(content) THEN <<>> ELSE Get(content))
       IN  IF og = <<>> THEN None
           ELSE Some([url |-> og, length |-> <<>>, type |-> GuessType(og)])

\* ---- feed elements -----------------------------------------------------------
\* An item element: ns is "" when its children carry no namespace and "atom"
\* when they are in the Atom namespace; each child is optional text, the
\* enclosure child an optional record of optional attributes; page is what
\* the item's link answers to the preview resolver's request in this run.
\* faulty variant: the child is found by its local name, in any namespace
Find_AnyNamespace(el, tag) == el[tag]

\* Element.find(tag) with an un-namespaced tag
Find(el, tag) == IF el.ns = "" THEN el[tag] ELSE None

\* text(el, tag)
text(el, tag) ==
  LET t == Find(el, tag)
  IN  IF ~IsNone(t) /\ Get(t) # <<>> THEN Strip(Get(t)) ELSE <<>>

\* attrib.get(name, "")
AttribGet(attrib, name) == IF IsNone(attrib[name]) THEN <<>> ELSE Get(attrib[name])

NativeEnclosure(it) ==
  LET enc_el == Find(it, "enclosure")
  IN  IF IsNone(enc_el) THEN None
      ELSE Some([url |-> AttribGet(Get(enc_el), "url"),
                 length |-> AttribGet(Get(enc_el), "length"),
                 type |-> AttribGet(Get(enc_el), "type")])

\* faulty variant: the feed's own enclosure is preferred
ChooseEnclosure_PreferNative(it, link) ==
  LET og_enc == IF link # <<>> THEN fetch_og_image(link, it.page) ELSE None
  IN  IF ~IsNone(NativeEnclosure(it)) THEN NativeEnclosure(it) ELSE og_enc

\* faulty variant: with a link the enclosure is whatever the resolver
\* returns, None on failure included
ChooseEnclosure_Unconditional(it, link) ==
  IF link # <<>> THEN fetch_og_image(link, it.page) ELSE NativeEnclosure(it)

\* the enclosure of the extracted record: og:image is preferred
ChooseEnclosure(it, link) ==
  LET og_enc == IF link # <<>> THEN fetch_og_image(link, it.page) ELSE None
  IN  IF ~IsNone(og_enc) /\ Get(og_enc).url # <<>> THEN og_enc ELSE NativeEnclosure(it)

extract_item_data(it) ==
  LET title == text(it, "title")
      link == text(it, "link")
      desc_el == Find(it, "description")
      description == IF ~IsNone(desc_el) /\ Get(desc_el) # <<>> THEN Get(desc_el) ELSE <<>>
      pub_date_raw == text(it, "pubDate")
      pub_date == parse_pubdate(pub_date_raw)
  IN  [guid |-> guid_clean(text(it, "guid")),
       title |-> title,
       link |-> link,
       description |-> description,
       enclosure |-> ChooseEnclosure(it, link),
       pubDate_raw |-> pub_date_raw,
       pubDate |-> IF IsNone(pub_date) THEN None ELSE Some(IsoFormat(Get(pub_date)))]

\* ---- the store ---------------------------------------------------------------
\* The store is a Python dict, which keeps insertion order: a sequence of
\* entries [key, rec] with distinct keys.  rec has the extracted record's
\* fields and fetched_at.
Keys(st) == {st[i].key : i \in 1..Len(st)}
IndexOf(st, g) == CHOOSE i \in 1..Len(st) : st[i].key = g
Lookup(st, g) == st[IndexOf(st, g)].rec

RECURSIVE SelectEntries(_, _)
SelectEntries(st, keep) ==
  IF st = <<>> THEN <<>>
  ELSE IF Head(st).key \in keep
       THEN <<Head(st)>> \o SelectEntries(Tail(st), keep)
       ELSE SelectEntries(Tail(st), keep)

\* faulty variant: the cutoff itself counts as too old
Expired_Inclusive(rec, now) == FromIsoFormat(rec.fetched_at) <= now - RETENTION_DAYS

\* prune_store: the keys to delete, then the deletions
Expired(rec, now) == FromIsoFormat(rec.fetched_at) < now - RETENTION_DAYS
\* faulty variant: the keys to delete are collected and nothing is deleted
prune_store_NoDelete(st, now) == st

prune_store(st, now) ==
  LET to_delete == {st[i].key : i \in {j \in 1..Len(st) : Expired(st[j].rec, now)}}
  IN  SelectEntries(st, Keys(st) \ to_delete)

\* {**d, "fetched_at": fetched}
NewRecord(d, fetched) ==
  [guid |-> d.guid, title |-> d.title, link |-> d.link, description |-> d.description,
   enclosure |-> d.enclosure, pubDate_raw |-> d.pubDate_raw, pubDate |-> d.pubDate,
   fetched_at |-> fetched]

\* faulty variant: a sparse patch, an empty or absent incoming value leaves the old one
UpdateRecord_Sparse(old, d) ==
  [old EXCEPT !.title = IF d.title # <<>> THEN d.title ELSE @,
              !.link = IF d.link # <<>> THEN d.link ELSE @,
              !.description = IF d.description # <<>> THEN d.description ELSE @,
              !.enclosure = IF ~IsNone(d.enclosure) THEN d.enclosure ELSE @,
              !.pubDate_raw = IF d.pubDate_raw # <<>> THEN d.pubDate_raw ELSE @,
              !.pubDate = IF ~IsNone(d.pubDate) THEN d.pubDate ELSE @]

\* faulty variant: a guid the store holds is skipped, the first record wins
UpdateRecord_FirstWins(old, d) == old

\* store[g].update({k: d[k] for k in d if k not in ("guid", "fetched_at")})
UpdateRecord(old, d) ==
  [old EXCEPT !.title = d.title, !.link = d.link, !.description = d.description,
              !.enclosure = d.enclosure, !.pubDate_raw = d.pubDate_raw,
              !.pubDate = d.pubDate]

\* faulty variant: a seen guid is assigned a fresh record, like an unseen one
UpsertOne_Overwrite(st, d, fetched) ==
  LET g == d.guid
  IN  IF g = <<>> THEN st
      ELSE IF g \notin Keys(st)
           THEN Append(st, [key |-> g, rec |-> NewRecord(d, fetched)])
           ELSE [st EXCEPT ![IndexOf(st, g)].rec = NewRecord(d, fetched)]

\* faulty variant: no test of the guid, a record without one is stored too
UpsertOne_NoGuard(st, d, fetched) ==
  LET g == d.guid
  IN  IF g \notin Keys(st)
      THEN Append(st, [key |-> g, rec |-> NewRecord(d, fetched)])
      ELSE [st EXCEPT ![IndexOf(st, g)].rec = UpdateRecord(@, d)]

\* faulty variant: only the guids the store already holds are written
UpsertOne_NoInsert(st, d, fetched) ==
  LET g == d.guid
  IN  IF g = <<>> \/ g \notin Keys(st) THEN st
      ELSE [st EXCEPT ![IndexOf(st, g)].rec = UpdateRecord(@, d)]

UpsertOne(st, d, fetched) ==
  LET g == d.guid
  IN  IF g = <<>> THEN st
      ELSE IF g \notin Keys(st)
           THEN Append(st, [key |-> g, rec |-> NewRecord(d, fetched)])
           ELSE [st EXCEPT ![IndexOf(st, g)].rec = UpdateRecord(@, d)]

RECURSIVE UpsertAll(_, _, _)
UpsertAll(st, items_data, fetched) ==
  IF items_data = <<>> THEN st
  ELSE UpsertAll(UpsertOne(st, Head(items_data), fetched), Tail(items_data), fetched)

upsert_items(st, items_data, now) == UpsertAll(st, items_data, IsoFormat(now))

\* ---- build_rss ---------------------------------------------------------------
\* sort_key(rec): pubDate when set and parseable, else fetched_at
sort_key(rec) ==
  IF ~IsNone(rec.pubDate) THEN FromIsoFormat(Get(rec.pubDate))
  ELSE FromIsoFormat(rec.fetched_at)

\* faulty variant: reverse=True is missing, the order is ascending
InsertDesc_Ascending(sorted, e) ==
  LET n == Cardinality({i \in 1..Len(sorted) : sort_key(sorted[i].rec) <= sort_key(e.rec)})
  IN  SubSeq(sorted, 1, n) \o <<e>> \o SubSeq(sorted, n + 1, Len(sorted))

\* sorted(..., key, reverse=True): descending and stable, records of equal key
\* keep the order they have in the store
InsertDesc(sorted, e) ==
  LET n == Cardinality({i \in 1..Len(sorted) : sort_key(sorted[i].rec) >= sort_key(e.rec)})
  IN  SubSeq(sorted, 1, n) \o <<e>> \o SubSeq(sorted, n + 1, Len(sorted))
RECURSIVE SortedDesc(_)
SortedDesc(st) ==
  IF st = <<>> THEN <<>>
  ELSE InsertDesc(SortedDesc(SubSeq(st, 1, Len(st) - 1)), st[Len(st)])

CDATA_PLACEHOLDER_START == <<"__CDATA_PLACEHOLDER_START__">>
CDATA_PLACEHOLDER_END == <<"__CDATA_PLACEHOLDER_END__">>
CDATA_OPEN == <<"<", "!", "[", "C", "D", "A", "T", "A", "[">>
CDATA_CLOSE == <<"]", "]", "]", ">">>

\* ElementTree's escaping of element text
EscapeChar(c) ==
  CASE c = "&" -> <<"&", "a", "m", "p", ";">>
    [] c = "<" -> <<"&", "l", "t", ";">>
    [] c = ">" -> <<"&", "g", "t", ";">>
    [] OTHER -> <<c>>
RECURSIVE EscapeText(_)
EscapeText(s) == IF s = <<>> THEN <<>> ELSE EscapeChar(Head(s)) \o EscapeText(Tail(s))

\* str.replace(old, new) for a one-token old
RECURSIVE Replace(_, _, _)
Replace(s, old, new) ==
  IF s = <<>> THEN <<>>
  ELSE (IF <<Head(s)>> = old THEN new ELSE <<Head(s)>>) \o Replace(Tail(s), old, new)

\* the description element's content in the written file: the placeholders
\* around the text, ET.tostring's escaping, then the two replacements
DescriptionContent(desc_text) ==
  LET d_text == CDATA_PLACEHOLDER_START \o desc_text \o CDATA_PLACEHOLDER_END
      xml_str == EscapeText(d_text)
  IN  Replace(Replace(xml_str, CDATA_PLACEHOLDER_START, CDATA_OPEN),
              CDATA_PLACEHOLDER_END, CDATA_CLOSE)

\* the enclosure element's attributes: every k of url, length, type whose
\* value is not None; the three values of a stored enclosure are always text
EnclosureAttrs(enc) == [k \in {"url", "length", "type"} |-> enc[k]]

\* one <item>: each child element is optional
RenderItem(rec) ==
  [title |-> IF rec.title # <<>> THEN Some(rec.title) ELSE None,
   link |-> IF rec.link # <<>> THEN Some(rec.link) ELSE None,
   description |-> IF rec.description # <<>> THEN Some(DescriptionContent(rec.description))
                   ELSE None,
   enclosure |-> IF ~IsNone(rec.enclosure) /\ Get(rec.enclosure).url # <<>>
                 THEN Some(EnclosureAttrs(Get(rec.enclosure))) ELSE None,
   pubDate |-> IF rec.pubDate_raw # <<>> THEN Some(rec.pubDate_raw) ELSE None,
   guid |-> IF rec.guid # <<>> THEN Some(rec.guid) ELSE None]

\* the document written to OUTPUT_PATH
build_rss(st, now) ==
  LET ordered == SortedDesc(st)
  IN  [kind |-> "xml",
       lastBuildDate |-> now,
       items |-> [i \in 1..Len(ordered) |-> RenderItem(ordered[i].rec)]]

\* ---- the files ---------------------------------------------------------------
\* The store file is absent, holds the JSON text of a store, or holds a prefix
\* of one left by a save that was cut short: "truncated" ends between
\* characters, "truncated_utf8" ends inside a multi-byte character.
AbsentFile == [kind |-> "absent", data |-> <<>>]
JsonFile(st) == [kind |-> "json", data |-> st]
TruncatedFile(k) == [kind |-> k, data |-> <<>>]
TruncatedKinds == {"truncated", "truncated_utf8"}

\* load_store: result "ok" with the store, or "raise"
load_store(file) ==
  CASE file.kind = "absent" -> [result |-> "ok", store |-> <<>>]
    [] file.kind = "json" -> [result |-> "ok", store |-> file.data]
    [] file.kind = "truncated" -> [result |-> "ok", store |-> <<>>]
    [] OTHER -> [result |-> "raise", store |-> <<>>]

\* save_store
save_store(st) == JsonFile(st)

\* parse_rss_items: a document is [wellformed, channel, entries]; channel is
\* optional and holds its item children, entries are the root's Atom entries
parse_rss_items(doc) ==
  IF ~doc.wellformed THEN [result |-> "raise", items |-> <<>>]
  ELSE IF ~IsNone(doc.channel) THEN [result |-> "ok", items |-> Get(doc.channel)]
  ELSE [result |-> "ok", items |-> doc.entries]

\* ---- the inputs: items, pages, remote documents --------------------------------
NoAttrs == [url |-> None, length |-> None, type |-> None]
NativeEnc == [url |-> Some(<<"n", ".", "p", "n", "g">>), length |-> Some(<<"5">>), type |-> None]
PageWebp == Some(<<[prop |-> OG_IMAGE, content |-> Some(<<"i", ".", "w", "e", "b", "p", "?", "w">>)]>>)
PagePng == Some(<<[prop |-> OG_IMAGE, content |-> Some(<<"x">>)],
                  [prop |-> <<" ", "O", "G", ":", "I", "m", "a", "g", "e">>, content |-> Some(<<"I", ".", "P", "N", "G">>)]>>)
PageNoOg == Some(<<[prop |-> OG_IMAGE_WIDTH, content |-> Some(<<"8">>)],
                   [prop |-> OG_IMAGE, content |-> Some(<<" ">>)]>>)
PageError == None

Item(ns, guid, title, link, description, enclosure, pubDate, page) ==
  [ns |-> ns, guid |-> guid, title |-> title, link |-> link,
   description |-> description, enclosure |-> enclosure, pubDate |-> pubDate,
   page |-> page]

ItemA == Item("", Some(<<"a">>), Some(<<"T">>), Some(<<"L">>), Some(<<"<", "b", "&">>),
              None, Some(<<"1">>), PageWebp)
ItemA2 == Item("", Some(<<"t", ":", "a">>), None, None, None, None, Some(<<"x">>), PageWebp)
ItemB == Item("", Some(<<"U", "R", "N", ":", "u", "u", "i", "d", ":", "b">>), Some(<<" ", "U">>), Some(<<"L">>), None,
              Some(NativeEnc), None, PagePng)
ItemNoGuid == Item("", None, Some(<<"T">>), Some(<<"L">>), None, Some(NativeEnc), Some(<<"2">>), PageError)
ItemColon == Item("", Some(<<"t", ":">>), Some(<<"T">>), Some(<<"L">>), None, Some(NoAttrs), None, PageNoOg)
RssItems == {ItemA, ItemA2, ItemB, ItemNoGuid, ItemColon}

\* an Atom entry: the same children, in the Atom namespace
AtomEntries == {[ItemA EXCEPT !.ns = "atom"]}

SeqsUpTo(S, n) == UNION {[1..k -> S] : k \in 0..n}

RssDoc(items) == [wellformed |-> TRUE, channel |-> Some(items), entries |-> <<>>]
AtomDoc(entries) == [wellformed |-> TRUE, channel |-> None, entries |-> entries]
MalformedDoc == [wellformed |-> FALSE, channel |-> None, entries |-> <<>>]
\* the documents of Spec: channels of the items with guid a or b, and a
\* document that is not XML
Docs ==
  {RssDoc(items) : items \in SeqsUpTo({ItemA, ItemA2, ItemB}, MaxItems)}
    \cup {MalformedDoc}
\* the documents of WideSpec
WideDocs ==
  {RssDoc(items) : items \in SeqsUpTo(RssItems, MaxWideItems)}
    \cup {AtomDoc(entries) : entries \in SeqsUpTo(AtomEntries, 1)}
    \cup {MalformedDoc}

\* ---- state -------------------------------------------------------------------
VARIABLES
  now,            \* the wall clock (now_utc), in days
  remote,         \* the document FEED_URL serves, with the pages its links serve
  storeFile,      \* the file at STORE_PATH
  outFile,        \* the file at OUTPUT_PATH
  pc,             \* where main() is: "idle" between runs
  store,          \* main's store
  xml,            \* main's xml
  items,          \* main's items
  parsed,         \* main's parsed
  prevStoreFile,  \* history: the store file when the current or last run began
  prevOutFile,    \* history: the output file when the current or last run began
  pruneTime,      \* history: the clock read by the run's prune_store
  upsertTime,     \* history: the clock read by the run's upsert_items
  outcome,        \* history: how the last finished run ended
  changed         \* history: the remote document changed since the last run that
                  \* ended well (TRUE before the first)

vars == <<now, remote, storeFile, outFile, pc, store, xml, items, parsed,
          prevStoreFile, prevOutFile, pruneTime, upsertTime, outcome, changed>>
locals == <<store, xml, items, parsed>>
history == <<prevStoreFile, prevOutFile, pruneTime, upsertTime, outcome, changed>>

NoDoc == AtomDoc(<<>>)
NoOutput == [kind |-> "absent", lastBuildDate |-> 0, items |-> <<>>]

InitWith(docs) ==
  /\ now = 0
  /\ remote \in docs
  /\ storeFile = AbsentFile
  /\ outFile = NoOutput
  /\ pc = "idle"
  /\ store = <<>>
  /\ xml = NoDoc
  /\ items = <<>>
  /\ parsed = <<>>
  /\ prevStoreFile = AbsentFile
  /\ prevOutFile = NoOutput
  /\ pruneTime = 0
  /\ upsertTime = 0
  /\ outcome = "none"
  /\ changed = TRUE

\* the process ends: its variables are gone
Exit(how) ==
  /\ pc' = "done"
  /\ store' = <<>>
  /\ xml' = NoDoc
  /\ items' = <<>>
  /\ parsed' = <<>>
  /\ outcome' = how

\* ---- the environment ---------------------------------------------------------
\* The clock is read by prune_store, upsert_items and build_rss: it advances
\* between runs and while the run waits for the network.
TickTo(maxTime) ==
  /\ \/ pc = "idle"
     \/ pc = "pruned" /\ now - pruneTime < MaxRunDays
  /\ now < maxTime
  /\ now' = now + 1
  /\ UNCHANGED <<remote, storeFile, outFile, pc, locals, history>>

RemoteChangesIn(docs) ==
  /\ pc = "idle"
  /\ \E doc \in docs \ {remote} : remote' = doc
  /\ changed' = TRUE
  /\ UNCHANGED <<now, storeFile, outFile, pc, locals,
                 prevStoreFile, prevOutFile, pruneTime, upsertTime, outcome>>

\* ---- main() ------------------------------------------------------------------
\* store = load_store()
LoadOk ==
  /\ pc = "idle"
  /\ load_store(storeFile).result = "ok"
  /\ store' = load_store(storeFile).store
  /\ pc' = "loaded"
  /\ prevStoreFile' = storeFile
  /\ prevOutFile' = outFile
  /\ outcome' = "running"
  /\ UNCHANGED <<now, remote, storeFile, outFile, xml, items, parsed,
                 pruneTime, upsertTime, changed>>

\* load_store raises: the run ends there
LoadRaises ==
  /\ pc = "idle"
  /\ load_store(storeFile).result = "raise"
  /\ prevStoreFile' = storeFile
  /\ prevOutFile' = outFile
  /\ Exit("load_raised")
  /\ UNCHANGED <<now, remote, storeFile, outFile, pruneTime, upsertTime, changed>>

\* faulty variant: the pruned store is written back at once
Prune_Persisting ==
  /\ pc = "loaded"
  /\ store' = prune_store(store, now)
  /\ storeFile' = save_store(prune_store(store, now))
  /\ pruneTime' = now
  /\ pc' = "pruned"
  /\ UNCHANGED <<now, remote, outFile, xml, items, parsed,
                 prevStoreFile, prevOutFile, upsertTime, outcome, changed>>

\* prune_store(store)
Prune ==
  /\ pc = "loaded"
  /\ store' = prune_store(store, now)
  /\ pruneTime' = now
  /\ pc' = "pruned"
  /\ UNCHANGED <<now, remote, storeFile, outFile, xml, items, parsed,
                 prevStoreFile, prevOutFile, upsertTime, outcome, changed>>

\* xml = fetch_feed_xml(FEED_URL)
FetchOk ==
  /\ pc = "pruned"
  /\ xml' = remote
  /\ pc' = "fetched"
  /\ UNCHANGED <<now, remote, storeFile, outFile, store, items, parsed, history>>

\* urlopen raises (network error, timeout, HTTP error): the run ends there
FetchRaises ==
  /\ pc = "pruned"
  /\ Exit("fetch_failed")
  /\ UNCHANGED <<now, remote, storeFile, outFile,
                 prevStoreFile, prevOutFile, pruneTime, upsertTime, changed>>

\* items = parse_rss_items(xml)
ParseOk ==
  /\ pc = "fetched"
  /\ parse_rss_items(xml).result = "ok"
  /\ items' = parse_rss_items(xml).items
  /\ pc' = "parsed"
  /\ UNCHANGED <<now, remote, storeFile, outFile, store, xml, parsed, history>>

\* ET.fromstring raises ParseError: the run ends there
ParseRaises ==
  /\ pc = "fetched"
  /\ parse_rss_items(xml).result = "raise"
  /\ Exit("parse_failed")
  /\ UNCHANGED <<now, remote, storeFile, outFile,
                 prevStoreFile, prevOutFile, pruneTime, upsertTime, changed>>

\* parsed = [extract_item_data(it) for it in items]
Extract ==
  /\ pc = "parsed"
  /\ parsed' = [i \in 1..Len(items) |-> extract_item_data(items[i])]
  /\ pc' = "extracted"
  /\ UNCHANGED <<now, remote, storeFile, outFile, store, xml, items, history>>

\* upsert_items(store, parsed)
Upsert ==
  /\ pc = "extracted"
  /\ store' = upsert_items(store, parsed, now)
  /\ upsertTime' = now
  /\ pc' = "upserted"
  /\ UNCHANGED <<now, remote, storeFile, outFile, xml, items, parsed,
                 prevStoreFile, prevOutFile, pruneTime, outcome, changed>>

\* save_store(store)
Save ==
  /\ pc = "upserted"
  /\ storeFile' = save_store(store)
  /\ pc' = "saved"
  /\ UNCHANGED <<now, remote, outFile, locals, history>>

\* the process is killed while save_store writes: open(..., "w") has emptied
\* the file and a prefix of the JSON text is on disk (ensure_ascii=False: the
\* text of a record holds multi-byte characters, the text "{}" of the empty
\* store holds none)
SaveInterrupted ==
  /\ pc = "upserted"
  /\ \E k \in TruncatedKinds :
       /\ k = "truncated_utf8" => store # <<>>
       /\ storeFile' = TruncatedFile(k)
  /\ Exit("killed")
  /\ UNCHANGED <<now, remote, outFile,
                 prevStoreFile, prevOutFile, pruneTime, upsertTime, changed>>

\* faulty variant: the output file is opened for appending, the items of the
\* earlier output stay in front of the new ones
Render_Appending ==
  /\ pc = "saved"
  /\ outFile' = [build_rss(store, now) EXCEPT !.items = outFile.items \o @]
  /\ Exit("ok")
  /\ UNCHANGED <<now, remote, storeFile,
                 prevStoreFile, prevOutFile, pruneTime, upsertTime, changed>>

\* build_rss(store), and main returns
Render ==
  /\ pc = "saved"
  /\ outFile' = build_rss(store, now)
  /\ Exit("ok")
  /\ UNCHANGED <<now, remote, storeFile,
                 prevStoreFile, prevOutFile, pruneTime, upsertTime, changed>>

\* between two runs nothing of the finished run is left but the files
Return ==
  /\ pc = "done"
  /\ pc' = "idle"
  /\ prevStoreFile' = AbsentFile
  /\ prevOutFile' = NoOutput
  /\ pruneTime' = 0
  /\ upsertTime' = 0
  /\ outcome' = "none"
  /\ changed' = IF outcome = "ok" THEN FALSE ELSE changed
  /\ UNCHANGED <<now, remote, storeFile, outFile, locals>>

Init == InitWith(Docs)
Tick == TickTo(MaxTime)
RemoteChanges == RemoteChangesIn(Docs)

WideInit == InitWith(WideDocs)
WideTick == TickTo(MaxWideTime)
WideRemoteChanges == RemoteChangesIn(WideDocs)

\* the steps of main()
Main ==
  \/ LoadOk
  \/ LoadRaises
  \/ Prune
  \/ FetchOk
  \/ FetchRaises
  \/ ParseOk
  \/ ParseRaises
  \/ Extract
  \/ Upsert
  \/ Save
  \/ SaveInterrupted
  \/ Render
  \/ Return

Next == Tick \/ RemoteChanges \/ Main
WideNext == WideTick \/ WideRemoteChanges \/ Main

Spec == Init /\ [][Next]_vars
WideSpec == WideInit /\ [][WideNext]_vars

\* ---- runs that keep coming --------------------------------------------------------
\* Time does not stop: the clock, which the model lets advance between two
\* runs and while a run waits for the network, goes on to MaxLiveTime, far
\* enough for a record made on day MaxListTime to pass the retention window.
\* Whether runs keep coming and end well is left to the scheduler and the
\* network.
MaxListTime == 1
MaxLiveTime == MaxListTime + RETENTION_DAYS + 1
LiveDocs == {RssDoc(<<ItemA>>), RssDoc(<<>>), MalformedDoc}

LiveInit == InitWith(LiveDocs)
LiveTick == TickTo(MaxLiveTime)
LiveRemoteChanges == RemoteChangesIn(LiveDocs)
LiveNext == LiveTick \/ LiveRemoteChanges \/ Main
LiveSpec == LiveInit /\ [][LiveNext]_vars /\ SF_vars(LiveTick)

\* ---- feeds with items that fail ---------------------------------------------------
\* The feeds of FailSpec hold a sound item, an item with a feed enclosure
\* whose page request fails and whose pubDate is not a date, and an item
\* without enclosure or pubDate whose page names no og:image.
ItemFail == Item("", Some(<<"b">>), Some(<<"T">>), Some(<<"L">>), None, Some(NativeEnc), Some(<<"x">>), PageError)
ItemBare == Item("", Some(<<"t", ":", "a">>), None, Some(<<"L">>), None, None, None, PageNoOg)
FailDocs ==
  {RssDoc(its) : its \in SeqsUpTo({ItemA, ItemFail, ItemBare}, MaxWideItems)}
    \cup {MalformedDoc}

FailInit == InitWith(FailDocs)
FailTick == TickTo(MaxWideTime)
FailRemoteChanges == RemoteChangesIn(FailDocs)
FailNext == FailTick \/ FailRemoteChanges \/ Main
FailSpec == FailInit /\ [][FailNext]_vars

\* ---- build_rss on its own ----------------------------------------------------
\* The run is about to render: the store is any sequence of up to
\* MaxRenderLen records of distinct guids, each one the record upsert_items
\* made of an extracted item on day 2 or 3.
MaxRenderLen == 3
RenderGuids == {<<"a">>, <<"b">>, <<"c">>}
RenderShapes ==
  {[description |-> Some(<<"<", "b", "&">>), enclosure |-> None, page |-> PageWebp,
    pubDate |-> Some(<<"1">>)],
   [description |-> None, enclosure |-> Some(NativeEnc), page |-> PageError,
    pubDate |-> Some(<<"4", "+">>)],
   [description |-> Some(<<"d">>), enclosure |-> Some(NoAttrs), page |-> PageError,
    pubDate |-> Some(<<"x">>)],
   [description |-> None, enclosure |-> None, page |-> PagePng,
    pubDate |-> None]}
RenderRecords ==
  {NewRecord(extract_item_data(Item("", Some(g), Some(<<"T">>), Some(<<"L">>),
                                    sh.description, sh.enclosure, sh.pubDate, sh.page)),
             IsoFormat(t)) :
     g \in RenderGuids, sh \in RenderShapes, t \in 2..3}
RenderStores ==
  {st \in SeqsUpTo(RenderRecords, MaxRenderLen) :
     \A i, j \in 1..Len(st) : i # j => st[i].guid # st[j].guid}

RenderInit ==
  /\ now = 3
  /\ remote = NoDoc
  /\ \E st \in RenderStores :
       /\ store = [i \in 1..Len(st) |-> [key |-> st[i].guid, rec |-> st[i]]]
       /\ storeFile = save_store([i \in 1..Len(st) |-> [key |-> st[i].guid, rec |-> st[i]]])
  /\ outFile = NoOutput
  /\ pc = "saved"
  /\ xml = NoDoc
  /\ items = <<>>
  /\ parsed = <<>>
  /\ prevStoreFile = AbsentFile
  /\ prevOutFile = NoOutput
  /\ pruneTime = 3
  /\ upsertTime = 3
  /\ outcome = "running"
  /\ changed = TRUE

RenderNext == Render \/ Return
RenderSpec == RenderInit /\ [][RenderNext]_vars

\* ---- extract_item_data on its own -----------------------------------------------
\* The run has parsed a feed of one item: an item whose raw guid is any text
\* of a prefix and a tail of up to MaxGuidLen characters, or an item whose
\* page names any og:image URL made of a stem, an extension and a query.
MaxGuidLen == 3
GuidPrefixes ==
  {<<>>,
   URN_PREFIX,
   <<"U", "R", "N", ":", "u", "U", "i", "D", ":">>,
   <<"u", "r", "n", ":", "u", "u", "i", "d">>,
   <<"u", "r", "n", ":">>}
GuidTails == SeqsUpTo({"a", "D", ":"}, MaxGuidLen)
RawGuids == {p \o t : p \in GuidPrefixes, t \in GuidTails}

UrlStems == {<<>>, <<"i">>, <<"I", ".", "p", "n", "g", "/", "i">>}
UrlExts ==
  {<<>>, EXT_WEBP, EXT_PNG,
   <<".", "W", "e", "b", "P">>,
   <<".", "P", "N", "G">>,
   <<".", "j", "p", "g">>,
   <<"w", "e", "b", "p">>,
   <<".", "p", "n", "g", "x">>}
UrlQueries ==
  {<<>>, <<"?">>, <<"?", "w">>, <<"?", ".", "p", "n", "g">>,
   <<"?", "i", ".", "w", "e", "b", "p", "?">>}
OgUrls == {s \o e \o q : s \in UrlStems, e \in UrlExts, q \in UrlQueries}
PageOf(u) == Some(<<[prop |-> OG_IMAGE, content |-> Some(u)]>>)

GuidItems == {Item("", Some(g), Some(<<"T">>), None, None, None, None, PageError) : g \in RawGuids}
ImageItems ==
  {Item("", Some(<<"a">>), None, Some(<<"L">>), None, enc, None, PageOf(u)) :
     u \in OgUrls, enc \in {None, Some(NativeEnc)}}
ExtractItems == GuidItems \cup ImageItems

ExtractInit ==
  /\ now = 0
  /\ \E it \in ExtractItems :
       /\ remote = RssDoc(<<it>>)
       /\ xml = RssDoc(<<it>>)
       /\ items = <<it>>
  /\ storeFile = AbsentFile
  /\ outFile = NoOutput
  /\ pc = "parsed"
  /\ store = <<>>
  /\ parsed = <<>>
  /\ prevStoreFile = AbsentFile
  /\ prevOutFile = NoOutput
  /\ pruneTime = 0
  /\ upsertTime = 0
  /\ outcome = "running"
  /\ changed = TRUE

ExtractNext == Extract \/ Upsert \/ Save \/ Render \/ Return
ExtractSpec == ExtractInit /\ [][ExtractNext]_vars

\* ---- properties --------------------------------------------------------------
RunFailed == outcome \in {"fetch_failed", "parse_failed"}
RunOk == pc = "done" /\ outcome = "ok"
Stored(file) == file.data
FetchedAt(rec) == rec.fetched_at.iso

\* the last record of the batch with guid g
LastIncoming(batch, g) ==
  batch[CHOOSE i \in 1..Len(batch) :
          /\ batch[i].guid = g
          /\ \A j \in (i + 1)..Len(batch) : batch[j].guid # g]

\* C1: upsert_items replaces title, link, description, enclosure, pubDate_raw
\* and pubDate of every record whose guid the batch holds with the incoming
\* values, empty and None included, leaves guid and fetched_at of every record
\* as they were, and leaves the records of the other guids unchanged.
C1_UpsertReplacesFields ==
  [][(pc = "extracted" /\ pc' = "upserted") =>
       \A i \in 1..Len(store) :
         LET g == store[i].key
             old == store[i].rec
         IN  /\ g \in Keys(store')
             /\ LET new == Lookup(store', g)
                IN  /\ new.guid = old.guid
                    /\ new.fetched_at = old.fetched_at
                    /\ IF \E k \in 1..Len(parsed) : parsed[k].guid = g
                       THEN LET d == LastIncoming(parsed, g)
                            IN  /\ new.title = d.title
                                /\ new.link = d.link
                                /\ new.description = d.description
                                /\ new.enclosure = d.enclosure
                                /\ new.pubDate_raw = d.pubDate_raw
                                /\ new.pubDate = d.pubDate
                       ELSE new = old]_vars

\* an update has put empty values and None over a record's fields, kept its
\* older fetched_at, and left the record of another guid alone
C1_Witness ==
  /\ pc = "upserted"
  /\ \E g \in Keys(store) \cap Keys(Stored(storeFile)) :
       LET old == Lookup(Stored(storeFile), g)
           new == Lookup(store, g)
       IN  /\ \E k \in 1..Len(parsed) : parsed[k].guid = g
           /\ old.title # <<>> /\ new.title = <<>>
           /\ ~IsNone(old.enclosure) /\ IsNone(new.enclosure)
           /\ ~IsNone(old.pubDate) /\ IsNone(new.pubDate)
           /\ new.fetched_at = old.fetched_at
           /\ FetchedAt(new) < upsertTime
  /\ \E h \in Keys(store) \cap Keys(Stored(storeFile)) :
       /\ \A k \in 1..Len(parsed) : parsed[k].guid # h
       /\ Lookup(store, h) = Lookup(Stored(storeFile), h)

\* C2: prune_store removes exactly the records whose fetched_at is strictly
\* older than now - 7 days (8 days old: removed; 6 days old or exactly 7: kept)
\* and does not modify the records it keeps.
C2_PruneExactlyOlder ==
  [][(pc = "loaded" /\ pc' = "pruned") =>
       /\ Keys(store') \subseteq Keys(store)
       /\ \A i \in 1..Len(store) :
            IF FetchedAt(store[i].rec) < now - 7
            THEN store[i].key \notin Keys(store')
            ELSE /\ store[i].key \in Keys(store')
                 /\ Lookup(store', store[i].key) = store[i].rec]_vars

\* a prune has removed a record 8 days old and kept one exactly at the cutoff
C2_Witness ==
  /\ pc = "pruned"
  /\ \E g \in Keys(Stored(storeFile)) \ Keys(store) :
       FetchedAt(Lookup(Stored(storeFile), g)) = pruneTime - 8
  /\ \E h \in Keys(store) : FetchedAt(Lookup(store, h)) = pruneTime - 7

\* C3: a run in which the feed fetch fails or the feed does not parse ends
\* with the store file and the output file as they were when the run began.
C3_FailedRunWritesNothing ==
  RunFailed => storeFile = prevStoreFile /\ outFile = prevOutFile

\* a run has ended at the parse failure after its prune had removed a record
\* from the store in memory
C3_Witness ==
  /\ pc = "done"
  /\ outcome = "parse_failed"
  /\ outFile.kind = "xml"
  /\ \E i \in 1..Len(Stored(storeFile)) :
       FetchedAt(Stored(storeFile)[i].rec) < pruneTime - 7

\* the run that just ended well followed a run that ended well on the same
\* remote document, with no run cut short in between
SecondRunOnSameFeed == RunOk /\ ~changed /\ prevStoreFile.kind = "json"
NoneCrossedCutoff ==
  \A i \in 1..Len(Stored(prevStoreFile)) :
    FetchedAt(Stored(prevStoreFile)[i].rec) >= pruneTime - 7

\* C4: a second run on the same feed content, with no record crossing the
\* retention cutoff in between, leaves the persisted store as the first run
\* left it, and the rendered item sequence too.
C4_Idempotent ==
  (SecondRunOnSameFeed /\ NoneCrossedCutoff) =>
     /\ storeFile = prevStoreFile
     /\ outFile.items = prevOutFile.items

\* such a second run has ended, a day or more after the first, over a store
\* that holds records
C4_Witness ==
  /\ SecondRunOnSameFeed
  /\ NoneCrossedCutoff
  /\ Len(Stored(prevStoreFile)) = 2
  /\ \E i \in 1..Len(Get(remote.channel)) :
       extract_item_data(Get(remote.channel)[i]).guid \in Keys(Stored(prevStoreFile))
  /\ prevOutFile.kind = "xml"
  /\ outFile.lastBuildDate > prevOutFile.lastBuildDate

\* C5: every record of the persisted store, and of the store in memory, has a
\* non-empty guid and is kept under the key equal to that guid, so an item
\* whose normalized guid is empty is never stored.
WellKeyed(st) ==
  \A i \in 1..Len(st) : st[i].key # <<>> /\ st[i].rec.guid = st[i].key
C5_StoredGuidsNonEmpty == WellKeyed(Stored(storeFile)) /\ WellKeyed(store)

\* a run has ended well on a feed holding an item without guid and an item
\* whose raw guid ends in a colon, over a store that holds a record
C5_Witness ==
  /\ RunOk
  /\ ~IsNone(remote.channel)
  /\ \E i \in 1..Len(Get(remote.channel)) : IsNone(Get(remote.channel)[i].guid)
  /\ \E i \in 1..Len(Get(remote.channel)) :
       LET g == Get(remote.channel)[i].guid
       IN  ~IsNone(g) /\ Last(Get(g)) = ":"
  /\ Len(Stored(storeFile)) > 0

\* C6: after a run that ended well no record of the persisted store is older
\* than the time of the run's prune less the retention; the records the run
\* inserted carry the time of its upsert, which is not before the prune.
C6_WithinRetentionAfterRun ==
  RunOk =>
    /\ upsertTime >= pruneTime
    /\ \A i \in 1..Len(Stored(storeFile)) :
         LET e == Stored(storeFile)[i]
         IN  /\ FetchedAt(e.rec) >= pruneTime - 7
             /\ (\/ e.key \notin Keys(Stored(prevStoreFile))
                 \/ FetchedAt(Lookup(Stored(prevStoreFile), e.key)) < pruneTime - 7)
                  => FetchedAt(e.rec) = upsertTime

\* a run has ended well with a record that survived its prune at the cutoff
\* and a record inserted at an upsert later than the prune
C6_Witness ==
  /\ RunOk
  /\ upsertTime > pruneTime
  /\ \E i \in 1..Len(Stored(storeFile)) :
       FetchedAt(Stored(storeFile)[i].rec) = pruneTime - 7
  /\ \E i \in 1..Len(Stored(storeFile)) :
       /\ FetchedAt(Stored(storeFile)[i].rec) = upsertTime
       /\ Stored(storeFile)[i].key \notin Keys(Stored(prevStoreFile))

\* C7 as stated: a guid persisted after two consecutive runs that ended well
\* has the same fetched_at after both.
C7_FetchedAtNeverChanges ==
  (RunOk /\ prevStoreFile.kind = "json") =>
    \A g \in Keys(Stored(storeFile)) \cap Keys(Stored(prevStoreFile)) :
      Lookup(Stored(storeFile), g).fetched_at = Lookup(Stored(prevStoreFile), g).fetched_at

\* C7 amended: the fetched_at is the same after both runs unless the second
\* run's prune removed the record (fetched_at strictly older than the prune
\* time less 7 days) and its upsert inserted the guid again, with the time of
\* that upsert.
C7_FetchedAtKeptUnlessPruned ==
  (RunOk /\ prevStoreFile.kind = "json") =>
    \A g \in Keys(Stored(storeFile)) \cap Keys(Stored(prevStoreFile)) :
      LET old == Lookup(Stored(prevStoreFile), g)
          new == Lookup(Stored(storeFile), g)
      IN  IF FetchedAt(old) < pruneTime - 7
          THEN FetchedAt(new) = upsertTime
          ELSE new.fetched_at = old.fetched_at

\* a run has ended well having updated the fields of a record it found, days
\* after the record was inserted
C7_Witness ==
  /\ RunOk
  /\ prevStoreFile.kind = "json"
  /\ \E g \in Keys(Stored(storeFile)) \cap Keys(Stored(prevStoreFile)) :
       LET old == Lookup(Stored(prevStoreFile), g)
           new == Lookup(Stored(storeFile), g)
       IN  /\ new.fetched_at = old.fetched_at
           /\ new.title # old.title
           /\ FetchedAt(old) < pruneTime

\* the record the output's i-th item was rendered from: the one of its guid
RenderedFrom(i) == Lookup(Stored(storeFile), Get(outFile.items[i].guid))
\* a record's sort key: its pubDate when it has one, its fetched_at otherwise
KeyOfRecord(rec) == IF rec.pubDate # None THEN Get(rec.pubDate).iso ELSE FetchedAt(rec)

\* C8: build_rss emits one item per record, in descending order of sort key:
\* of two adjacent items the earlier one's key is greater than or equal to
\* the later one's.
C8_RenderedNewestFirst ==
  RunOk =>
    /\ Len(outFile.items) = Len(Stored(storeFile))
    /\ \A i \in 1..(Len(outFile.items) - 1) :
         KeyOfRecord(RenderedFrom(i)) >= KeyOfRecord(RenderedFrom(i + 1))

\* records with pubDate day 1, pubDate day 3 and no pubDate but fetched_at
\* day 2, stored in that order, are rendered as day 3, day 2, day 1
C8_Witness ==
  /\ RunOk
  /\ Len(Stored(storeFile)) = 3
  /\ LET st == Stored(storeFile)
     IN  /\ st[1].rec.pubDate = Some(IsoFormat(1))
         /\ st[2].rec.pubDate = Some(IsoFormat(3))
         /\ st[3].rec.pubDate = None /\ FetchedAt(st[3].rec) = 2
         /\ outFile.items[1].guid = Some(st[2].key)
         /\ outFile.items[2].guid = Some(st[3].key)
         /\ outFile.items[3].guid = Some(st[1].key)

\* C9 as stated: a store file with invalid content is treated as a missing
\* one: load_store gives the empty store and the run goes on.
C9_InvalidStoreIsEmptyStore ==
  prevStoreFile.kind \in TruncatedKinds =>
    /\ outcome # "load_raised"
    /\ pc = "loaded" => store = <<>>

\* the resolver's answer for an item
Resolved(it) ==
  IF text(it, "link") # <<>> THEN fetch_og_image(text(it, "link"), it.page) ELSE None
\* item i is the last of the channel with its guid, so the stored record is its
LastOfGuid(ch, i) ==
  \A j \in (i + 1)..Len(ch) : extract_item_data(ch[j]).guid # extract_item_data(ch[i]).guid

\* C10: when the resolver gives an image for an item with a link, the
\* extracted record's enclosure is the resolver's result whatever the feed's
\* own enclosure, and the rendered item carries that enclosure only; when the
\* resolver gives nothing, the record's enclosure is the feed's own, or none.
C10_PreviewImageWins ==
  /\ pc = "extracted" =>
       \A i \in 1..Len(items) :
         IF ~IsNone(Resolved(items[i])) /\ Get(Resolved(items[i])).url # <<>>
         THEN parsed[i].enclosure = Resolved(items[i])
         ELSE parsed[i].enclosure = NativeEnclosure(items[i])
  /\ (RunOk /\ ~IsNone(remote.channel)) =>
       \A i \in 1..Len(Get(remote.channel)) :
         LET ch == Get(remote.channel)
             g == extract_item_data(ch[i]).guid
         IN  (g # <<>> /\ LastOfGuid(ch, i) /\ ~IsNone(Resolved(ch[i]))) =>
               \E k \in 1..Len(outFile.items) :
                 /\ outFile.items[k].guid = Some(g)
                 /\ ~IsNone(outFile.items[k].enclosure)
                 /\ Get(outFile.items[k].enclosure).url = Get(Resolved(ch[i])).url
                 /\ Get(outFile.items[k].enclosure).type = Get(Resolved(ch[i])).type
                 /\ \A m \in 1..Len(outFile.items) :
                      outFile.items[m].guid = Some(g) => m = k

\* an item with an enclosure of its own and a resolvable og:image has been
\* rendered with the og:image, and an item whose page gave nothing has been
\* extracted with its own enclosure
C10_Witness ==
  /\ RunOk
  /\ ~IsNone(remote.channel)
  /\ \E i \in 1..Len(Get(remote.channel)) :
       LET it == Get(remote.channel)[i]
       IN  /\ ~IsNone(NativeEnclosure(it))
           /\ Get(NativeEnclosure(it)).url # <<>>
           /\ ~IsNone(Resolved(it))
           /\ Get(Resolved(it)).url # Get(NativeEnclosure(it)).url
           /\ \E k \in 1..Len(outFile.items) :
                /\ outFile.items[k].guid = Some(extract_item_data(it).guid)
                /\ Get(outFile.items[k].enclosure).url = Get(Resolved(it)).url

\* ---- guid_clean against the reference normalization ----------------------------
\* the raw guid begins with urn:uuid:, whatever the case of its letters
HasUrnPrefix(raw) ==
  /\ Len(raw) >= 9
  /\ \A i \in 1..9 : LowerChar(raw[i]) = URN_PREFIX[i]
LastColon(raw) == CHOOSE k \in 1..Len(raw) : raw[k] = ":" /\ \A j \in (k + 1)..Len(raw) : raw[j] # ":"
ReferenceGuid(raw) ==
  IF HasUrnPrefix(raw) THEN [i \in 1..(Len(raw) - 9) |-> raw[i + 9]]
  ELSE IF \E k \in 1..Len(raw) : raw[k] = ":"
       THEN [i \in 1..(Len(raw) - LastColon(raw)) |-> raw[i + LastColon(raw)]]
       ELSE raw

FirstQuery(u) ==
  IF \E k \in 1..Len(u) : u[k] = "?"
  THEN CHOOSE k \in 1..Len(u) : u[k] = "?" /\ \A j \in 1..(k - 1) : u[j] # "?"
  ELSE Len(u) + 1
\* the part of u before its first ? ends in ext, whatever the case
PathHasExt(u, ext) ==
  LET n == FirstQuery(u) - 1
  IN  /\ n >= Len(ext)
      /\ \A i \in 1..Len(ext) : LowerChar(u[n - Len(ext) + i]) = ext[i]
ReferenceType(u) ==
  IF PathHasExt(u, EXT_WEBP) THEN "image/webp"
  ELSE IF PathHasExt(u, EXT_PNG) THEN "image/png"
  ELSE "image/jpeg"
\* the og:image URL the item's page names
OgUrlOf(it) == Get(Get(it.page)[1].content)

\* C12: for an item with a link whose page names a non-empty og:image URL,
\* the resolved enclosure is that URL with length "" and the type given by the
\* URL's part before the first ?, compared in any case: .webp gives
\* image/webp, .png gives image/png, everything else image/jpeg.
C12_ImageTypeFromPath ==
  pc = "extracted" =>
    \A i \in 1..Len(items) :
      (items[i] \in ImageItems /\ OgUrlOf(items[i]) # <<>>) =>
        parsed[i].enclosure =
          Some([url |-> OgUrlOf(items[i]), length |-> <<>>,
                type |-> ReferenceType(OgUrlOf(items[i]))])

\* a URL ending in .WebP before a query that itself ends in .png has been
\* resolved to image/webp
C12_Witness ==
  /\ pc = "extracted"
  /\ Len(items) = 1
  /\ items[1] \in ImageItems
  /\ OgUrlOf(items[1]) = <<"i", ".", "W", "e", "b", "P", "?", ".", "p", "n", "g">>
  /\ Get(parsed[1].enclosure).type = "image/webp"
  /\ Get(parsed[1].enclosure).length = <<>>

\* ---- the rendered description and enclosure ---------------------------------------
CDATA_END == <<"]", "]", ">">>

\* C13 as stated: the description element of every record with a non-empty
\* description D holds <![CDATA[, then D character for character with no
\* entity in place of <, > or &, then the three-character terminator ]]>.
C13_DescriptionIsVerbatimCdata ==
  RunOk =>
    \A k \in 1..Len(outFile.items) :
      RenderedFrom(k).description # <<>> =>
        outFile.items[k].description =
          Some(CDATA_OPEN \o RenderedFrom(k).description \o CDATA_END)

\* the names of the enclosure's values that are not empty
NonEmptyAttrs(enc) == {a \in {"url", "length", "type"} : enc[a] # <<>>}

\* C15 as stated: an item has an enclosure element exactly when its record's
\* enclosure has a non-empty url, and the element's attributes are those of
\* url, length and type whose value is non-empty, with that value.
C15_EnclosureAttrsNonEmptyOnly ==
  RunOk =>
    \A k \in 1..Len(outFile.items) :
      LET enc == RenderedFrom(k).enclosure
          el == outFile.items[k].enclosure
      IN  /\ ~IsNone(el) <=> (~IsNone(enc) /\ Get(enc).url # <<>>)
          /\ ~IsNone(el) =>
                /\ DOMAIN Get(el) = NonEmptyAttrs(Get(enc))
                /\ \A a \in NonEmptyAttrs(Get(enc)) : Get(el)[a] = Get(enc)[a]

\* ---- the output against the store --------------------------------------------------
GuidsOf(its) == {its[k].guid : k \in 1..Len(its)}

\* C14: the output file changes only in the step that ends a run well; in
\* that step the store file already holds the run's store and stays as it
\* is, and the new output holds one item per record of that store: as many
\* items as records, and the guids of the items are the keys of the store,
\* so nothing of an earlier output is left.
C14_OutputMirrorsStore ==
  [][/\ outFile' # outFile => (pc = "saved" /\ pc' = "done" /\ outcome' = "ok")
     /\ (pc' = "done" /\ outcome' = "ok") =>
          /\ storeFile.kind = "json"
          /\ Stored(storeFile) = store
          /\ storeFile' = storeFile
          /\ Len(outFile'.items) = Len(Stored(storeFile'))
          /\ GuidsOf(outFile'.items) = {Some(g) : g \in Keys(Stored(storeFile'))}]_vars

\* a run has ended well over an earlier output: an item of that output whose
\* record the run pruned is gone, an item whose record it kept is there
C14_Witness ==
  /\ RunOk
  /\ prevOutFile.kind = "xml"
  /\ \E g \in GuidsOf(prevOutFile.items) : g \notin GuidsOf(outFile.items)
  /\ \E g \in GuidsOf(prevOutFile.items) : g \in GuidsOf(outFile.items)

\* ---- failures of one item ------------------------------------------------------------
\* the item has a link and its preview image could not be resolved: the
\* request failed, or the page names no og:image
PreviewFailed(it) == text(it, "link") # <<>> /\ IsNone(Resolved(it))
\* the item's pubDate text is not a date
DateFailed(it) == ~DateParses(text(it, "pubDate"))
\* record i is the last of the batch with its guid
LastOfBatch(batch, i) == \A j \in (i + 1)..Len(batch) : batch[j].guid # batch[i].guid

\* C16: extraction never ends the run, and when a run over a parsed feed
\* ends, every item with a non-empty guid whose preview image could not be
\* resolved or whose pubDate is not a date is in the persisted store and in
\* the output, with the feed's own enclosure (or none) and no pubDate.
C16_ItemFailuresKeepTheBatch ==
  [][/\ pc = "parsed" => pc' = "extracted"
     /\ (pc = "saved" /\ pc' = "done") =>
          /\ outcome' = "ok"
          /\ \A i \in 1..Len(items) :
               (parsed[i].guid # <<>> /\ LastOfBatch(parsed, i)) =>
                 /\ parsed[i].guid \in Keys(Stored(storeFile))
                 /\ Some(parsed[i].guid) \in GuidsOf(outFile'.items)
                 /\ PreviewFailed(items[i]) =>
                      Lookup(Stored(storeFile), parsed[i].guid).enclosure = NativeEnclosure(items[i])
                 /\ DateFailed(items[i]) =>
                      Lookup(Stored(storeFile), parsed[i].guid).pubDate = None]_vars

\* a run has ended well on a feed of two items: one whose page request
\* failed and whose pubDate is not a date is stored with the feed's own
\* enclosure and no pubDate and is rendered, the other is stored with its
\* preview image
C16_Witness ==
  /\ RunOk
  /\ ~IsNone(remote.channel)
  /\ Len(Get(remote.channel)) = 2
  /\ \E i \in 1..2 :
       LET it == Get(remote.channel)[i]
           g == extract_item_data(it).guid
       IN  /\ text(it, "link") # <<>> /\ IsNone(it.page)
           /\ ~IsNone(NativeEnclosure(it))
           /\ DateFailed(it)
           /\ g \in Keys(Stored(storeFile))
           /\ Lookup(Stored(storeFile), g).enclosure = NativeEnclosure(it)
           /\ Lookup(Stored(storeFile), g).pubDate = None
           /\ Some(g) \in GuidsOf(outFile.items)
  /\ \E j \in 1..2 :
       LET it == Get(remote.channel)[j]
           g == extract_item_data(it).guid
       IN  /\ ~IsNone(Resolved(it))
           /\ g \in Keys(Stored(storeFile))
           /\ Lookup(Stored(storeFile), g).enclosure = Resolved(it)

\* ---- the feed's items after a run ------------------------------------------------------
\* the normalized guids of the items the remote feed lists
Listed(doc) ==
  IF doc.wellformed /\ ~IsNone(doc.channel)
  THEN {ReferenceGuid(text(Get(doc.channel)[i], "guid")) : i \in 1..Len(Get(doc.channel))} \ {<<>>}
  ELSE {}

\* C18: after a run that ended well every item of the fetched feed with a
\* non-empty normalized guid has a record in the persisted store; if the
\* store held a record of that guid older than the retention window when
\* the run began, the record now persisted was inserted by this run, with
\* fetched_at the time of its upsert.
C18_ListedItemsAreStored ==
  RunOk =>
    \A g \in Listed(remote) :
      /\ g \in Keys(Stored(storeFile))
      /\ (/\ g \in Keys(Stored(prevStoreFile))
          /\ FetchedAt(Lookup(Stored(prevStoreFile), g)) < pruneTime - 7) =>
           FetchedAt(Lookup(Stored(storeFile), g)) = upsertTime

\* a run has ended well on a feed listing a guid whose record was 8 days
\* old: the record persisted now carries the time of the run's upsert
C18_Witness ==
  /\ RunOk
  /\ \E g \in Listed(remote) \cap Keys(Stored(prevStoreFile)) :
       /\ FetchedAt(Lookup(Stored(prevStoreFile), g)) = pruneTime - 8
       /\ g \in Keys(Stored(storeFile))
       /\ FetchedAt(Lookup(Stored(storeFile), g)) = upsertTime
       /\ upsertTime >= pruneTime

\* ---- two items of one guid ----------------------------------------------------------------
Occurrences(batch, g) == {k \in 1..Len(batch) : batch[k].guid = g}

\* C19: when upsert_items is given a batch in which two records have the
\* same non-empty guid, the store then holds one record under that guid,
\* with the six updatable fields of the last of them in document order and
\* the fetched_at of the first insertion: the one the store already had, or
\* the time of this upsert.
C19_DuplicatesMergeLastWins ==
  [][(pc = "extracted" /\ pc' = "upserted") =>
       \A i \in 1..Len(parsed) :
         LET g == parsed[i].guid
         IN  (g # <<>> /\ Cardinality(Occurrences(parsed, g)) > 1) =>
               /\ Cardinality({k \in 1..Len(store') : store'[k].key = g}) = 1
               /\ LET new == Lookup(store', g)
                      d == LastIncoming(parsed, g)
                  IN  /\ new.guid = g
                      /\ new.title = d.title
                      /\ new.link = d.link
                      /\ new.description = d.description
                      /\ new.enclosure = d.enclosure
                      /\ new.pubDate_raw = d.pubDate_raw
                      /\ new.pubDate = d.pubDate
                      /\ new.fetched_at =
                           IF g \in Keys(store) THEN Lookup(store, g).fetched_at
                           ELSE IsoFormat(now)]_vars

\* a feed of two items with different raw guids of one normalized guid has
\* been upserted into the empty store: one record, with the second item's
\* title and link
C19_Witness ==
  /\ pc = "upserted"
  /\ Len(items) = 2
  /\ text(items[1], "guid") # text(items[2], "guid")
  /\ parsed[1].guid = parsed[2].guid
  /\ parsed[1].title # parsed[2].title
  /\ Stored(storeFile) = <<>>
  /\ Len(store) = 1
  /\ store[1].rec.title = parsed[2].title
  /\ store[1].rec.enclosure = parsed[2].enclosure
  /\ FetchedAt(store[1].rec) = upsertTime

\* ---- the Atom fallback ----------------------------------------------------------------------
\* C20: when the fetched document has no channel, every record extracted
\* from its Atom entries has the empty guid, and upsert_items leaves the
\* store as it was: no record added, none updated.
C20_AtomEntriesAreIgnored ==
  [][/\ (pc = "extracted" /\ IsNone(xml.channel)) =>
          \A i \in 1..Len(parsed) : parsed[i].guid = <<>>
     /\ (pc = "extracted" /\ pc' = "upserted" /\ IsNone(xml.channel)) =>
          store' = store]_vars

\* an Atom document with an entry whose children name the guid of a stored
\* record has been upserted, and the record is as the store file has it
C20_Witness ==
  /\ pc = "upserted"
  /\ IsNone(xml.channel)
  /\ Len(xml.entries) = 1
  /\ Len(parsed) = 1
  /\ ~IsNone(xml.entries[1].guid)
  /\ Get(xml.entries[1].guid) \in Keys(store)
  /\ Lookup(store, Get(xml.entries[1].guid)).title # Get(xml.entries[1].title)
  /\ store = Stored(storeFile)

\* ---- eviction ------------------------------------------------------------------------------------
LiveGuid == <<"a">>
\* g is neither in the persisted store nor in the output
Absent(g) == g \notin Keys(Stored(storeFile)) /\ Some(g) \notin GuidsOf(outFile.items)
ListedLate == LiveGuid \in Listed(remote) /\ now > MaxListTime

\* C17: for a guid that the feed lists on no day after day MaxListTime, if
\* runs keep starting and runs that end well keep occurring (and the clock
\* goes on, as LiveSpec says), then from some time on the guid is in neither
\* the persisted store nor the output, for good; and a run that fails at
\* fetch or parse leaves the guid in the store file and the output file if
\* it was there.
C17_EventuallyEvicted ==
  /\ ([]<>(pc = "idle") /\ []<>RunOk /\ []~ListedLate) => <>[]Absent(LiveGuid)
  /\ [](RunFailed =>
          /\ LiveGuid \in Keys(Stored(prevStoreFile)) => LiveGuid \in Keys(Stored(storeFile))
          /\ Some(LiveGuid) \in GuidsOf(prevOutFile.items) =>
               Some(LiveGuid) \in GuidsOf(outFile.items))

\* a run has ended well and evicted a guid the feed lists no more: the
\* record was in the store file and the item in the output when the run
\* began, and both are gone
C17_Witness ==
  /\ RunOk
  /\ LiveGuid \in Keys(Stored(prevStoreFile))
  /\ Some(LiveGuid) \in GuidsOf(prevOutFile.items)
  /\ LiveGuid \notin Listed(remote)
  /\ Absent(LiveGuid)

====
